---- MODULE Spec2Model ----
(***************************************************************************)
(* Model of sgl::slangpy::Shape and sgl::slangpy::CallContext              *)
(* (src/sgl/utils/slangpy.h).                                              *)
(*                                                                         *)
(* Representation                                                          *)
(*   std::optional<std::vector<int>>  a record [has_value, value]; value   *)
(*                                    is the vector as a sequence (index   *)
(*                                    i of the code is position i+1).      *)
(*   int                              a 32-bit two's complement integer,   *)
(*                                    held as a TLA+ integer in            *)
(*                                    -2^31 .. 2^31-1.                     *)
(*   size_t                           a 64-bit unsigned integer, held as   *)
(*                                    its 8 bytes, least significant       *)
(*                                    first (2^64 is beyond the integers   *)
(*                                    the model checker computes with).    *)
(*   a call that throws               a result record whose err field is   *)
(*                                    the exception's message.             *)
(***************************************************************************)
EXTENDS Integers, Sequences, FiniteSets, TLC

VARIABLES a, b, ctx, res, ub

vars == <<a, b, ctx, res, ub>>

(***************************************************************************)
(* Bounds of the model.                                                    *)
(***************************************************************************)
\* longest vector a Shape is constructed from
MaxLen == 3

\* dimension values of the shapes of the two-object specifications
Dims == {-1, 2}

\* dimension values of the one-object arithmetic specification: the
\* sentinel, a value below it, small sizes, and sizes whose products leave
\* 32 and 64 bits
WideDims == {-2, -1, 0, 2, 3, 4, 65536, 2147483647}

RECURSIVE SeqsUpTo(_, _)
SeqsUpTo(S, n) ==
    IF n = 0 THEN {<<>>}
    ELSE LET shorter == SeqsUpTo(S, n - 1)
         IN  shorter \cup {Append(s, x) : s \in {t \in shorter : Len(t) = n - 1}, x \in S}

(***************************************************************************)
(* std::optional<std::vector<int>>                                         *)
(***************************************************************************)
nullopt == [has_value |-> FALSE, value |-> <<>>]

Some(v) == [has_value |-> TRUE, value |-> v]

Optionals(S) == {nullopt} \cup {Some(v) : v \in SeqsUpTo(S, MaxLen)}

(***************************************************************************)
(* Results of calls.                                                       *)
(***************************************************************************)
NoError == "none"

\* SGL_THROW("Shape is invalid")
InvalidState == "Shape is invalid"

\* the error the specification recommends for an index past the end; the
\* source never raises it
IndexOutOfRange == "IndexOutOfRange"

\* outcome of a signed overflow on a build that traps it: the process ends
Aborted == "aborted"

NoValue == "no value"

Return(v) == [err |-> NoError, val |-> v]

Throw(msg) == [err |-> msg, val |-> NoValue]

(***************************************************************************)
(* Shape: constructors.                                                    *)
(***************************************************************************)
\* Shape() = default
ShapeDefault == [m_shape |-> nullopt]

\* Shape(const std::optional<std::vector<int>>& shape)
ShapeFromOptional(shape) == [m_shape |-> shape]

\* mutation of ShapeFromList: an empty list is taken for an absent sequence
ShapeFromList_EmptyAbsent(shape) ==
    IF shape = <<>> THEN [m_shape |-> nullopt] ELSE [m_shape |-> Some(shape)]

\* Shape(std::initializer_list<int> shape)
ShapeFromList(shape) == [m_shape |-> Some(shape)]

\* Shape c{d0, ...}: overload resolution on a braced list.  Empty braces
\* value-initialize through the default constructor; a list with elements
\* selects the initializer-list constructor.
ShapeBraced(shape) ==
    IF shape = <<>> THEN ShapeDefault ELSE ShapeFromList(shape)

\* Shape(const Shape& other)
ShapeCopy(other) == [m_shape |-> other.m_shape]

\* Shape(Shape&& other): the new object; MovedFrom is what is left in other
ShapeMove(other) == [m_shape |-> other.m_shape]

\* std::optional's move constructor leaves other engaged, and std::vector's
\* leaves the moved-from vector empty
MovedFrom(other) ==
    IF other.m_shape.has_value THEN [m_shape |-> Some(<<>>)] ELSE other

Shapes(S) == {ShapeFromOptional(o) : o \in Optionals(S)}

(***************************************************************************)
(* Shape: accessors.                                                       *)
(***************************************************************************)
\* bool valid() const
valid(s) == s.m_shape.has_value

\* mutation of as_vector: the optional is dereferenced without the check
as_vector_unchecked(s) == Return(s.m_shape.value)

\* as_vector(), both forms: throws on a disengaged optional
as_vector(s) ==
    IF ~s.m_shape.has_value THEN Throw(InvalidState) ELSE Return(s.m_shape.value)

\* size_t size() const
size(s) ==
    LET v == as_vector(s)
    IN  IF v.err # NoError THEN v ELSE Return(Len(v.val))

RECURSIVE concrete_loop(_, _)
concrete_loop(vec, k) ==
    IF k > Len(vec) THEN TRUE
    ELSE IF vec[k] = -1 THEN FALSE
    ELSE concrete_loop(vec, k + 1)

\* mutation of concrete: every negative dimension counts as symbolic
concrete_negative(s) ==
    IF ~s.m_shape.has_value THEN Throw(InvalidState)
    ELSE Return(\A k \in 1..Len(s.m_shape.value) : s.m_shape.value[k] >= 0)

\* bool concrete() const
concrete(s) ==
    LET v == as_vector(s)
    IN  IF v.err # NoError THEN v ELSE Return(concrete_loop(v.val, 1))

\* mutation of concat: the operands are combined in the other order
concat_swapped(s, other) ==
    IF ~s.m_shape.has_value \/ ~other.m_shape.has_value THEN Throw(InvalidState)
    ELSE Return([m_shape |-> Some(other.m_shape.value \o s.m_shape.value)])

\* Shape operator+(const Shape& other) const
concat(s, other) ==
    LET this_vec == as_vector(s)
    IN  IF this_vec.err # NoError THEN this_vec
        ELSE LET other_vec == as_vector(other)
             IN  IF other_vec.err # NoError THEN other_vec
                 ELSE Return(ShapeFromOptional(Some(this_vec.val \o other_vec.val)))

RECURSIVE vector_equal_from(_, _, _)
vector_equal_from(x, y, k) ==
    IF k > Len(x) THEN TRUE
    ELSE IF x[k] # y[k] THEN FALSE
    ELSE vector_equal_from(x, y, k + 1)

\* operator== of std::vector<int>: equal sizes, then element by element
vector_equal(x, y) ==
    IF Len(x) # Len(y) THEN FALSE ELSE vector_equal_from(x, y, 1)

\* mutation of equals: the vectors are compared without regard to validity
equals_by_value(s, o) == vector_equal(s.m_shape.value, o.m_shape.value)

\* bool operator==(const Shape& o) const
equals(s, o) ==
    IF valid(s) # valid(o) THEN FALSE
    ELSE IF ~valid(s) /\ ~valid(o) THEN TRUE
    ELSE vector_equal(s.m_shape.value, o.m_shape.value)

RECURSIVE join(_, _)
join(vec, k) ==
    IF k > Len(vec) THEN ""
    ELSE IF k = Len(vec) THEN ToString(vec[k])
    ELSE ToString(vec[k]) \o ", " \o join(vec, k + 1)

\* std::string to_string() const
to_string(s) ==
    IF ~s.m_shape.has_value THEN Return("[invalid]")
    ELSE LET v == as_vector(s)
         IN  IF v.err # NoError THEN v ELSE Return("[" \o join(v.val, 1) \o "]")

\* as_vector() = vec on a non-const Shape: the possible results (err) and
\* values of *this (self)
as_vector_store(s, vec) ==
    LET v == as_vector(s)
    IN  IF v.err # NoError THEN [err |-> v.err, self |-> s]
        ELSE [err |-> NoError, self |-> [s EXCEPT !.m_shape.value = vec]]

\* Shape& operator=(const Shape& other): the new value of *this
assign(s, other) == [s EXCEPT !.m_shape = other.m_shape]

(***************************************************************************)
(* Fixed-width arithmetic.  A value of n bytes is a sequence of n numbers  *)
(* in 0..255, least significant first.                                     *)
(***************************************************************************)
\* the n >= 4 bytes of the int d converted to an n-byte integer type: the
\* two's complement bytes of d, sign-extended (int to size_t in
\* "result *= dim" is this conversion with n = 8)
BytesOfInt(d, n) ==
    [k \in 1..n |->
        IF k = 1 THEN d % 256
        ELSE IF k = 2 THEN (d \div 256) % 256
        ELSE IF k = 3 THEN (d \div 65536) % 256
        ELSE IF k = 4 THEN (d \div 16777216) % 256
        ELSE IF d < 0 THEN 255 ELSE 0]

\* the int whose two's complement bytes are the low 4 bytes of l
IntOfBytes(l) ==
    l[1] + l[2] * 256 + l[3] * 65536
         + (IF l[4] >= 128 THEN l[4] - 256 ELSE l[4]) * 16777216

RECURSIVE ColumnSum(_, _, _, _)
ColumnSum(x, y, p, i) ==
    IF i > p THEN 0 ELSE x[i] * y[p + 1 - i] + ColumnSum(x, y, p, i + 1)

RECURSIVE MulCarry(_, _, _, _)
MulCarry(x, y, p, carry) ==
    IF p > Len(x) THEN <<>>
    ELSE LET t == ColumnSum(x, y, p, 1) + carry
         IN  <<t % 256>> \o MulCarry(x, y, p + 1, t \div 256)

\* x * y of two n-byte values, truncated to n bytes (modulo 2^(8n))
MulBytes(x, y) == MulCarry(x, y, 1, 0)

\* size_t *= int
size_t_mul(result, dim) == MulBytes(result, BytesOfInt(dim, 8))

\* int * int.  The exact product is formed in 64 bits; when it is no int
\* the multiplication overflows, which the language leaves undefined: a
\* build either wraps (overflow = "wrap") or traps (overflow = "trap").
int_mul(x, y, overflow) ==
    LET exact == MulBytes(BytesOfInt(x, 8), BytesOfInt(y, 8))
        low   == IntOfBytes(exact)
    IN  IF exact = BytesOfInt(low, 8) THEN Return(low)
        ELSE IF overflow = "wrap" THEN Return(low)
        ELSE Throw(Aborted)

SignedOverflow == {"wrap", "trap"}

(***************************************************************************)
(* Shape: arithmetic.                                                      *)
(***************************************************************************)
RECURSIVE element_count_loop(_, _, _)
element_count_loop(vec, k, result) ==
    IF k > Len(vec) THEN result
    ELSE element_count_loop(vec, k + 1, size_t_mul(result, vec[k]))

\* mutation of element_count: the loop starts at the second dimension
element_count_skip_first(s) ==
    IF ~s.m_shape.has_value THEN Throw(InvalidState)
    ELSE Return(element_count_loop(s.m_shape.value, 2, BytesOfInt(1, 8)))

\* size_t element_count() const
element_count(s) ==
    LET v == as_vector(s)
    IN  IF v.err # NoError THEN v
        ELSE Return(element_count_loop(v.val, 1, BytesOfInt(1, 8)))

\* for (int i = size - 1; i >= 0; --i) { strides[i] = total; total *= shape[i]; }
\* k is i + 1
RECURSIVE strides_loop(_, _, _, _, _)
strides_loop(shape, strides, k, total, overflow) ==
    IF k < 1 THEN Return(strides)
    ELSE LET next == int_mul(total, shape[k], overflow)
         IN  IF next.err # NoError THEN next
             ELSE strides_loop(shape, [strides EXCEPT ![k] = total], k - 1,
                               next.val, overflow)

\* Shape calc_contiguous_strides() const
calc_contiguous_strides(s, overflow) ==
    IF valid(s)
    THEN LET shape == as_vector(s).val
             r     == strides_loop(shape, [k \in 1..Len(shape) |-> 1],
                                   Len(shape), 1, overflow)
         IN  IF r.err # NoError THEN r
             ELSE Return(ShapeFromOptional(Some(r.val)))
    ELSE Return(ShapeDefault)

(***************************************************************************)
(* Shape: indexers.  std::vector's operator[] does not check its index;    *)
(* an index past the end is undefined behaviour.  What the build does      *)
(* with it is not determined by the Shape: a read returns whatever lies    *)
(* past the end or the process ends; a store may land in an element or in  *)
(* the vector header of another Shape, in the allocator's own data (a      *)
(* later allocation then ends the process), in the vector itself (the      *)
(* address wraps), or nowhere that matters.  The model does not pick       *)
(* among them: the outcome is Undefined, which stands for all of them,     *)
(* and from then on (ub) every call of the execution is Undefined too.     *)
(***************************************************************************)
\* the outcome of a call whose behaviour is undefined: any value returned,
\* any object changed, the process ended, now or in a later call
Undefined == "undefined behaviour"

\* indices tried: up to one past the longest vector, and one far enough
\* past it to reach a neighbouring heap block
Indices == (0..MaxLen) \cup {2 * MaxLen + 2}

\* int operator[](size_t i) const
index_read(s, i) ==
    LET v == as_vector(s)
    IN  IF v.err # NoError THEN v
        ELSE IF i < Len(v.val) THEN Return(v.val[i + 1])
        ELSE Throw(Undefined)

\* int& operator[](size_t i) followed by a store of x through the
\* reference: the result (err) and the value of *this (self)
index_write(s, i, x) ==
    LET v == as_vector(s)
    IN  IF v.err # NoError THEN [err |-> v.err, self |-> s]
        ELSE IF i < Len(v.val)
             THEN [err |-> NoError, self |-> [s EXCEPT !.m_shape.value[i + 1] = x]]
        ELSE [err |-> Undefined, self |-> s]

(***************************************************************************)
(* CallContext.                                                            *)
(***************************************************************************)
\* enum class CallMode { prim = 0, bwds = 1, fwds = 2 }
CallMode == {"prim", "bwds", "fwds"}

\* values of a ref<Device>: the null reference and two live devices
Devices == {"nullptr", "device1", "device2"}

\* CallContext(ref<Device> device, const Shape& call_shape, CallMode call_mode)
CallContext(dev, call_shape_arg, call_mode_arg) ==
    [m_device     |-> dev,
     m_call_shape |-> ShapeCopy(call_shape_arg),
     m_call_mode  |-> call_mode_arg]

\* Device* device() const
device(c) == c.m_device

\* const Shape& call_shape() const
call_shape(c) == c.m_call_shape

\* CallMode call_mode() const
call_mode(c) == c.m_call_mode

(***************************************************************************)
(* State.                                                                  *)
(*   a, b   two Shape objects (a is the receiver of every call, b the      *)
(*          other operand)                                                 *)
(*   ctx    the CallContext object, with the arguments it was constructed  *)
(*          from (args) beside its fields (obj)                            *)
(*   res    the last call: its name, its outcome, the operands as they     *)
(*          were before it, its index argument (i) and its value or        *)
(*          sequence argument (x)                                          *)
(*   ub     the execution has made a call with undefined behaviour; a, b   *)
(*          and ctx then hold the last values the program determined and   *)
(*          no longer say what the objects hold                            *)
(***************************************************************************)
Called(op, r, i, x) ==
    [op |-> op, err |-> r.err, val |-> r.val, pre_a |-> a, pre_b |-> b,
     i |-> i, x |-> x]

NoCall == Called("none", Throw(NoError), 0, 0)

NoContext ==
    [constructed |-> FALSE,
     args |-> [device |-> "nullptr", call_shape |-> ShapeDefault, call_mode |-> "prim"],
     obj  |-> CallContext("nullptr", ShapeDefault, "prim")]

\* one call: its outcome r and the values it leaves in a, b and ctx; after
\* undefined behaviour the call is Undefined itself
Step(op, r, i, x, new_a, new_b, new_ctx) ==
    IF ub
    THEN /\ res' = Called(op, Throw(Undefined), i, x)
         /\ UNCHANGED <<a, b, ctx, ub>>
    ELSE /\ res' = Called(op, r, i, x)
         /\ a' = new_a
         /\ b' = new_b
         /\ ctx' = new_ctx
         /\ ub' = (r.err = Undefined)

(***************************************************************************)
(* Calls on the Shape a.                                                   *)
(***************************************************************************)
DoValid == Step("valid", Return(valid(a)), 0, 0, a, b, ctx)

DoSize == Step("size", size(a), 0, 0, a, b, ctx)

DoConcrete == Step("concrete", concrete(a), 0, 0, a, b, ctx)

DoElementCount == Step("element_count", element_count(a), 0, 0, a, b, ctx)

DoStrides ==
    \E overflow \in SignedOverflow :
        Step("calc_contiguous_strides", calc_contiguous_strides(a, overflow),
             0, 0, a, b, ctx)

\* a[i] on a const Shape
DoIndexRead ==
    \E i \in Indices : Step("index_read", index_read(a, i), i, 0, a, b, ctx)

\* a[i] = x
DoIndexWrite ==
    \E i \in Indices : \E x \in Dims :
        LET w == index_write(a, i, x)
        IN  Step("index_write", [err |-> w.err, val |-> NoValue], i, x,
                 w.self, b, ctx)

\* mutation of DoConcat: operator+ appends to *this, like operator+=
DoConcat_InPlace ==
    Step("concat", concat(a, b), 0, 0,
         IF concat(a, b).err = NoError THEN concat(a, b).val ELSE a, b, ctx)

\* a + b
DoConcat == Step("concat", concat(a, b), 0, 0, a, b, ctx)

\* a == b
DoEquals == Step("equals", Return(equals(a, b)), 0, 0, a, b, ctx)

\* a = b
DoAssign == Step("assign", Return(NoValue), 0, 0, assign(a, b), b, ctx)

\* a.to_string()
DoToString == Step("to_string", to_string(a), 0, 0, a, b, ctx)

\* a.as_vector() = vec
DoAsVectorStore ==
    \E vec \in SeqsUpTo(Dims, MaxLen) :
        LET w == as_vector_store(a, vec)
        IN  Step("as_vector_store", [err |-> w.err, val |-> NoValue], 0, vec,
                 w.self, b, ctx)

\* Shape c(a)
DoCopy == Step("copy", Return(ShapeCopy(a)), 0, 0, a, b, ctx)

\* Shape c(std::move(a))
DoMove == Step("move", Return(ShapeMove(a)), 0, 0, MovedFrom(a), b, ctx)

\* Shape c
DoConstructDefault == Step("Shape()", Return(ShapeDefault), 0, 0, a, b, ctx)

\* Shape c(shape) for an optional vector
DoConstructOptional ==
    \E shape \in Optionals(Dims) :
        Step("Shape(optional)", Return(ShapeFromOptional(shape)), 0, shape, a, b, ctx)

\* Shape c{d0, ...} for a literal list in braces
DoConstructList ==
    \E shape \in SeqsUpTo(Dims, MaxLen) :
        Step("Shape{...}", Return(ShapeBraced(shape)), 0, shape, a, b, ctx)

\* Shape c(list) for a std::initializer_list<int> object
DoConstructInitializerList ==
    \E shape \in SeqsUpTo(Dims, MaxLen) :
        Step("Shape(list)", Return(ShapeFromList(shape)), 0, shape, a, b, ctx)

(***************************************************************************)
(* Calls on the CallContext.                                               *)
(***************************************************************************)
\* CallContext c(dev, a, mode)
DoNewContext ==
    \E dev \in Devices, mode \in CallMode :
        Step("CallContext", Return(NoValue), 0, 0, a, b,
             [constructed |-> TRUE,
              args |-> [device |-> dev, call_shape |-> a, call_mode |-> mode],
              obj  |-> CallContext(dev, a, mode)])

DoDevice ==
    /\ ctx.constructed
    /\ Step("device", Return(device(ctx.obj)), 0, 0, a, b, ctx)

DoCallShape ==
    /\ ctx.constructed
    /\ Step("call_shape", Return(call_shape(ctx.obj)), 0, 0, a, b, ctx)

DoCallMode ==
    /\ ctx.constructed
    /\ Step("call_mode", Return(call_mode(ctx.obj)), 0, 0, a, b, ctx)

(***************************************************************************)
(* Specifications.                                                         *)
(***************************************************************************)
\* two Shape objects and every member function of Shape
Init ==
    /\ a \in Shapes(Dims)
    /\ b \in Shapes(Dims)
    /\ ctx = NoContext
    /\ res = NoCall
    /\ ub = FALSE

Next ==
    \/ DoValid
    \/ DoSize
    \/ DoConcrete
    \/ DoElementCount
    \/ DoStrides
    \/ DoIndexRead
    \/ DoIndexWrite
    \/ DoConcat
    \/ DoEquals
    \/ DoAssign
    \/ DoToString
    \/ DoAsVectorStore
    \/ DoCopy
    \/ DoMove

Spec == Init /\ [][Next]_vars

\* the constructors of Shape, and valid() on constructed Shapes
InitCtor ==
    /\ a \in Shapes(Dims)
    /\ b = ShapeDefault
    /\ ctx = NoContext
    /\ res = NoCall
    /\ ub = FALSE

NextCtor ==
    \/ DoConstructDefault
    \/ DoConstructOptional
    \/ DoConstructList
    \/ DoConstructInitializerList
    \/ DoCopy
    \/ DoValid

SpecCtor == InitCtor /\ [][NextCtor]_vars

\* one Shape object over the wide dimension values, and the operations that
\* compute with the dimension values
InitArith ==
    /\ a \in Shapes(WideDims)
    /\ b = ShapeDefault
    /\ ctx = NoContext
    /\ res = NoCall
    /\ ub = FALSE

NextArith ==
    \/ DoConcrete
    \/ DoElementCount
    \/ DoStrides

SpecArith == InitArith /\ [][NextArith]_vars

\* a CallContext constructed from the Shape a, which is assigned to and
\* written through afterwards
InitCtx ==
    /\ a \in Shapes(Dims)
    /\ b = ShapeDefault
    /\ ctx = NoContext
    /\ res = NoCall
    /\ ub = FALSE

NextCtx ==
    \/ DoNewContext
    \/ DoDevice
    \/ DoCallShape
    \/ DoCallMode
    \/ DoAssign
    \/ DoIndexWrite

SpecCtx == InitCtx /\ [][NextCtx]_vars

(***************************************************************************)
(* Reference arithmetic for the properties: exact products, formed in      *)
(* enough bytes (two's complement) for MaxLen factors of 32 bits.          *)
(***************************************************************************)
WideBytes == 4 * MaxLen + 8

\* the exact product of vec[k..Len(vec)], as WideBytes bytes
RECURSIVE ExactProduct(_, _)
ExactProduct(vec, k) ==
    IF k > Len(vec) THEN BytesOfInt(1, WideBytes)
    ELSE MulBytes(BytesOfInt(vec[k], WideBytes), ExactProduct(vec, k + 1))

\* the exact product lies in 0 .. 2^64 - 1
FitsSizeT(wide) == \A k \in 9..WideBytes : wide[k] = 0

\* the exact product is an int
FitsInt32(wide) == wide = BytesOfInt(IntOfBytes(wide), WideBytes)

\* the product of vec[k..Len(vec)] computed in the integers, for vectors of
\* small values
RECURSIVE SmallProduct(_, _)
SmallProduct(vec, k) ==
    IF k > Len(vec) THEN 1 ELSE vec[k] * SmallProduct(vec, k + 1)

IsSmall(vec) == \A k \in 1..Len(vec) : vec[k] \in -4..4

Vec(s) == s.m_shape.value

(***************************************************************************)
(* C1.  For valid Shapes A and B, A + B succeeds with a valid Shape whose  *)
(* sequence is A's followed by B's, so its size is A.size() + B.size();    *)
(* A and B are left as they were.  (Stated, like C3 and C4, of executions  *)
(* whose earlier calls all had defined behaviour: ~ub.)                    *)
(***************************************************************************)
C1_ConcatAppends ==
    (~ub /\ res.op = "concat" /\ valid(res.pre_a) /\ valid(res.pre_b)) =>
        LET A == Vec(res.pre_a)
            B == Vec(res.pre_b)
        IN  /\ res.err = NoError
            /\ valid(res.val)
            /\ size(res.val) = Return(size(res.pre_a).val + size(res.pre_b).val)
            /\ \A k \in 1..Len(A) : Vec(res.val)[k] = A[k]
            /\ \A k \in 1..Len(B) : Vec(res.val)[Len(A) + k] = B[k]
            /\ a = res.pre_a
            /\ b = res.pre_b

C1_Witness ==
    /\ ~ub
    /\ res.op = "concat"
    /\ res.err = NoError
    /\ Vec(res.pre_a) = <<2, -1>>
    /\ Vec(res.pre_b) = <<-1, -1, 2>>
    /\ Vec(res.val) = <<2, -1, -1, -1, 2>>

(***************************************************************************)
(* C2.  calc_contiguous_strides() of a valid Shape [d0..dn-1] returns a    *)
(* valid Shape of n strides with stride[i] the product of d[i+1..n-1]; of  *)
(* an invalid Shape it returns an invalid Shape.                           *)
(***************************************************************************)
C2_StridesAreProducts ==
    res.op = "calc_contiguous_strides" =>
        IF valid(res.pre_a)
        THEN /\ res.err = NoError
             /\ valid(res.val)
             /\ Len(Vec(res.val)) = Len(Vec(res.pre_a))
             /\ \A k \in 1..Len(Vec(res.pre_a)) :
                    BytesOfInt(Vec(res.val)[k], WideBytes)
                        = ExactProduct(Vec(res.pre_a), k + 1)
        ELSE res.err = NoError /\ ~valid(res.val)

(***************************************************************************)
(* C2, where nothing overflows: when the product of every d[i..n-1],       *)
(* i >= 0, is an int, the strides are as C2 says.                          *)
(***************************************************************************)
C2_StridesWithinInt ==
    ( /\ res.op = "calc_contiguous_strides"
      /\ valid(res.pre_a)
      /\ \A k \in 1..Len(Vec(res.pre_a)) : FitsInt32(ExactProduct(Vec(res.pre_a), k)) ) =>
        /\ res.err = NoError
        /\ valid(res.val)
        /\ Len(Vec(res.val)) = Len(Vec(res.pre_a))
        /\ \A k \in 1..Len(Vec(res.pre_a)) :
               BytesOfInt(Vec(res.val)[k], WideBytes)
                   = ExactProduct(Vec(res.pre_a), k + 1)
        /\ (IsSmall(Vec(res.pre_a)) /\ Len(Vec(res.pre_a)) > 0) =>
               /\ Vec(res.val)[Len(Vec(res.val))] = 1
               /\ \A k \in 1..Len(Vec(res.pre_a)) :
                      Vec(res.val)[k] = SmallProduct(Vec(res.pre_a), k + 1)

(***************************************************************************)
(* C3.  On an invalid Shape, size(), element_count(), concrete(), both     *)
(* forms of index(i), and concatenate with an invalid left or right        *)
(* operand fail with InvalidState, return nothing, and leave the operands  *)
(* as they were.                                                           *)
(***************************************************************************)
C3_InvalidFails ==
    LET unary  == {"size", "element_count", "concrete", "index_read", "index_write"}
        failed == \/ res.op \in unary /\ ~valid(res.pre_a)
                  \/ res.op = "concat" /\ (~valid(res.pre_a) \/ ~valid(res.pre_b))
    IN  (~ub /\ failed) =>
            /\ res.err = InvalidState
            /\ res.val = NoValue
            /\ a = res.pre_a
            /\ b = res.pre_b
            /\ valid(a) = valid(res.pre_a)
            /\ valid(b) = valid(res.pre_b)

C3_Witness ==
    /\ ~ub
    /\ res.op = "concat"
    /\ valid(res.pre_a)
    /\ ~valid(res.pre_b)
    /\ res.err = InvalidState

(***************************************************************************)
(* C4.  operator== never fails and is true exactly when both Shapes are    *)
(* invalid, or both are valid with sequences of the same length and the    *)
(* same elements in the same order.                                        *)
(***************************************************************************)
C4_EqualsIsStructural ==
    (~ub /\ res.op = "equals") =>
        LET A == res.pre_a
            B == res.pre_b
        IN  /\ res.err = NoError
            /\ res.val = ( \/ ~valid(A) /\ ~valid(B)
                           \/ /\ valid(A) /\ valid(B)
                              /\ Len(Vec(A)) = Len(Vec(B))
                              /\ \A k \in 1..Len(Vec(A)) : Vec(A)[k] = Vec(B)[k] )

C4_Witness ==
    /\ ~ub
    /\ res.op = "equals"
    /\ ~valid(res.pre_a)
    /\ valid(res.pre_b)
    /\ Vec(res.pre_b) = <<>>
    /\ res.val = FALSE

(***************************************************************************)
(* C5.  As claimed: for every valid Shape, concrete() is true exactly      *)
(* when every element is >= 0.                                             *)
(***************************************************************************)
C5_ConcreteIffNonNegative ==
    (res.op = "concrete" /\ valid(res.pre_a)) =>
        /\ res.err = NoError
        /\ res.val = (\A k \in 1..Len(Vec(res.pre_a)) : Vec(res.pre_a)[k] >= 0)

(***************************************************************************)
(* C5, amended.  For every valid Shape, concrete() is true exactly when    *)
(* no element equals -1; for Shapes whose elements are all >= -1 that is   *)
(* exactly when every element is >= 0.                                     *)
(***************************************************************************)
C5_ConcreteIffNoSentinel ==
    (res.op = "concrete" /\ valid(res.pre_a)) =>
        LET d == Vec(res.pre_a)
        IN  /\ res.err = NoError
            /\ res.val = (\A k \in 1..Len(d) : d[k] # -1)
            /\ (\A k \in 1..Len(d) : d[k] >= -1) =>
                   res.val = (\A k \in 1..Len(d) : d[k] >= 0)

C5_Witness ==
    /\ res.op = "concrete"
    /\ Vec(res.pre_a) = <<2, -2, 4>>
    /\ res.val = TRUE

(***************************************************************************)
(* C6.  As claimed: for every valid Shape, element_count() returns the     *)
(* product of its dimension values (1 for the empty Shape).                *)
(***************************************************************************)
C6_ElementCountIsProduct ==
    (res.op = "element_count" /\ valid(res.pre_a)) =>
        LET exact == ExactProduct(Vec(res.pre_a), 1)
        IN  /\ res.err = NoError
            /\ FitsSizeT(exact)
            /\ \A k \in 1..8 : res.val[k] = exact[k]

(***************************************************************************)
(* C6, amended.  For every valid Shape, element_count() returns the        *)
(* product of its dimension values reduced modulo 2^64: the product        *)
(* itself whenever that lies in 0 .. 2^64 - 1, and 1 for the empty Shape.  *)
(***************************************************************************)
C6_ElementCountModulo ==
    (res.op = "element_count" /\ valid(res.pre_a)) =>
        LET d     == Vec(res.pre_a)
            exact == ExactProduct(d, 1)
        IN  /\ res.err = NoError
            /\ \A k \in 1..8 : res.val[k] = exact[k]
            /\ d = <<>> => res.val = <<1, 0, 0, 0, 0, 0, 0, 0>>
            /\ (IsSmall(d) /\ SmallProduct(d, 1) >= 0) =>
                   /\ IntOfBytes(res.val) = SmallProduct(d, 1)
                   /\ \A k \in 5..8 : res.val[k] = 0

C6_Witness ==
    /\ res.op = "element_count"
    /\ Vec(res.pre_a) = <<2, 3, 4>>
    /\ res.val = <<24, 0, 0, 0, 0, 0, 0, 0>>

(***************************************************************************)
(* C7.  A CallContext is immutable after construction: whatever is done    *)
(* afterwards, including assigning to or writing through the Shape that    *)
(* was passed to the constructor, device(), call_shape() and call_mode()   *)
(* return the values supplied at construction.                             *)
(***************************************************************************)
C7_ContextImmutable ==
    ctx.constructed =>
        /\ device(ctx.obj) = ctx.args.device
        /\ call_shape(ctx.obj) = ctx.args.call_shape
        /\ call_mode(ctx.obj) = ctx.args.call_mode
        /\ res.op = "device" =>
               res.err = NoError /\ res.val = ctx.args.device
        /\ res.op = "call_shape" =>
               res.err = NoError /\ res.val = ctx.args.call_shape
        /\ res.op = "call_mode" =>
               res.err = NoError /\ res.val = ctx.args.call_mode

(***************************************************************************)
(* C7, up to the first access past the end: as long as no call of the      *)
(* execution had undefined behaviour, the accessors return the values      *)
(* supplied at construction, also after the argument Shape was assigned    *)
(* to or written through within its bounds.                                *)
(***************************************************************************)
C7_ImmutableWhileDefined == ~ub => C7_ContextImmutable

(***************************************************************************)
(* C8.  As claimed: no operation of Shape changes the validity or the      *)
(* sequence of an already constructed Shape.                               *)
(***************************************************************************)
C8_ShapeImmutable == a = res.pre_a /\ b = res.pre_b

(***************************************************************************)
(* C8, amended.  No const operation of Shape (valid, size, concrete,       *)
(* element_count, calc_contiguous_strides, to_string, the read form of     *)
(* index with i < size(), concatenate, equals, copying) and no             *)
(* construction of another Shape changes the validity or the sequence of   *)
(* an already constructed Shape; the non-const operations do: assignment   *)
(* gives the target the source's validity and sequence, a store through    *)
(* the read-write index(i) with i < size() replaces element i, a store     *)
(* through the non-const as_vector() of a valid Shape replaces the         *)
(* sequence, and being moved from leaves a valid Shape with the empty      *)
(* sequence.  index(i) with i >= size() on a valid Shape, read or store,   *)
(* is undefined behaviour, and after it nothing is determined about any    *)
(* Shape.                                                                  *)
(***************************************************************************)
C8_OnlyMutatorsChange ==
    LET past == /\ res.op \in {"index_read", "index_write"}
                /\ valid(res.pre_a)
                /\ res.i >= Len(Vec(res.pre_a))
    IN  /\ ub = (res.err = Undefined)
        /\ (res.op # "none" /\ res.err # Undefined) => ~past
        /\ ~ub =>
            /\ b = res.pre_b
            /\ res.op \notin {"assign", "index_write", "as_vector_store", "move"} =>
                   a = res.pre_a
            /\ res.op = "assign" => a = res.pre_b
            /\ (res.op = "index_write" /\ valid(res.pre_a)) =>
                   /\ res.err = NoError
                   /\ valid(a)
                   /\ Len(Vec(a)) = Len(Vec(res.pre_a))
                   /\ \A k \in 1..Len(Vec(a)) :
                          Vec(a)[k] = IF k = res.i + 1 THEN res.x ELSE Vec(res.pre_a)[k]
            /\ res.op = "as_vector_store" =>
                   /\ valid(a) = valid(res.pre_a)
                   /\ valid(a) => Vec(a) = res.x
            /\ res.op = "move" =>
                   /\ valid(a) = valid(res.pre_a)
                   /\ valid(a) => Vec(a) = <<>>
                   /\ res.val = res.pre_a

C8_Witness ==
    /\ ~ub
    /\ res.op = "assign"
    /\ Vec(res.pre_a) = <<2, 2>>
    /\ ~valid(res.pre_b)
    /\ ~valid(a)

(***************************************************************************)
(* C9.  As claimed: a Shape constructed from a present sequence S (the     *)
(* empty one and a literal list included) is valid, its size is the        *)
(* length of S and its elements are those of S in order; a                 *)
(* default-constructed Shape and one constructed from an absent sequence   *)
(* are invalid; valid() reports this and never fails.                      *)
(***************************************************************************)
C9_ConstructionFixesValidity ==
    /\ res.op = "Shape()" => res.err = NoError /\ valid(res.val) = FALSE
    /\ res.op = "Shape(optional)" =>
           /\ res.err = NoError
           /\ valid(res.val) = res.x.has_value
           /\ res.x.has_value =>
                  /\ size(res.val) = Return(Len(res.x.value))
                  /\ \A k \in 1..Len(res.x.value) : Vec(res.val)[k] = res.x.value[k]
    /\ res.op \in {"Shape(list)", "Shape{...}"} =>
           /\ res.err = NoError
           /\ valid(res.val) = TRUE
           /\ size(res.val) = Return(Len(res.x))
           /\ \A k \in 1..Len(res.x) : Vec(res.val)[k] = res.x[k]
    /\ res.op = "valid" =>
           /\ res.err = NoError
           /\ res.val = res.pre_a.m_shape.has_value

(***************************************************************************)
(* C9, amended.  A Shape constructed from a present optional sequence S    *)
(* (the empty one included), from a std::initializer_list S (the empty     *)
(* one included) or from a braced literal list S with at least one         *)
(* element is valid, its size is the length of S and its elements are      *)
(* those of S in order; a default-constructed Shape, one written with      *)
(* empty braces (which is default construction) and one constructed from   *)
(* an absent sequence are invalid; valid() reports this and never fails.   *)
(***************************************************************************)
C9_ConstructionExceptEmptyBraces ==
    /\ res.op = "Shape()" => res.err = NoError /\ valid(res.val) = FALSE
    /\ res.op = "Shape(optional)" =>
           /\ res.err = NoError
           /\ valid(res.val) = res.x.has_value
           /\ res.x.has_value =>
                  /\ size(res.val) = Return(Len(res.x.value))
                  /\ \A k \in 1..Len(res.x.value) : Vec(res.val)[k] = res.x.value[k]
    /\ res.op = "Shape(list)" =>
           /\ res.err = NoError
           /\ valid(res.val) = TRUE
           /\ size(res.val) = Return(Len(res.x))
           /\ \A k \in 1..Len(res.x) : Vec(res.val)[k] = res.x[k]
    /\ res.op = "Shape{...}" =>
           /\ res.err = NoError
           /\ valid(res.val) = (res.x # <<>>)
           /\ res.x # <<>> =>
                  /\ size(res.val) = Return(Len(res.x))
                  /\ \A k \in 1..Len(res.x) : Vec(res.val)[k] = res.x[k]
    /\ res.op = "valid" =>
           /\ res.err = NoError
           /\ res.val = res.pre_a.m_shape.has_value

C9_Witness ==
    /\ res.op = "Shape(list)"
    /\ res.x = <<>>
    /\ valid(res.val)
    /\ size(res.val) = Return(0)

(***************************************************************************)
(* C10.  On a valid Shape, index(i) with i >= size(), in the read and the  *)
(* read-write form, fails with IndexOutOfRange and leaves the Shape as it  *)
(* was.                                                                    *)
(***************************************************************************)
C10_IndexBoundChecked ==
    ( /\ res.op \in {"index_read", "index_write"}
      /\ valid(res.pre_a)
      /\ res.i >= Len(Vec(res.pre_a)) ) =>
        /\ res.err = IndexOutOfRange
        /\ a = res.pre_a

====
